---- MODULE Spec2Model ----
(***************************************************************************)
(* Enrollment lifecycle and payment reconciliation of the LKnight LMS      *)
(* backend (src/src/controllers/enrollment.controller.js).                 *)
(*                                                                         *)
(* Every Express handler is an async function: it runs up to its next      *)
(* `await prisma...` / `await stripe...`, is suspended there and may be     *)
(* interleaved with any other handler.  A handler is modelled as a process  *)
(* slot of `procs`: one action for the part that reads the store and        *)
(* validates, one action for each later store call.  The store is the       *)
(* PostgreSQL table "Enrollment" with its unique indexes and foreign keys.  *)
(***************************************************************************)
EXTENDS Integers, FiniteSets, Sequences, TLC

\* ---------------------------------------------------------------- domains
Users == {"u1"}
Courses == {"c1"}
Sessions == {"s1", "s2"}
Procs == {1, 2}

\* number of Enrollment ids the store hands out in one behaviour
MaxId == 2
\* number of store calls that fail for infrastructure reasons in one behaviour
MaxFail == 1

NULL == "null"
NoTime == 0
Times == {1}
Ids == 1..MaxId

\* prices are counted in tenths of a cent so that Math.round(price * 100)
\* is not the identity
Prices == {0, 25}

\* ------------------------------------------------------------ the schema
\* CREATE TYPE "EnrollmentStatus"
EnrollmentStatus == {"PENDING", "COMPLETED", "REFUNDED"}

NoCourse == [status |-> "NONE", price |-> 0]

VARIABLES
    enrollments,   \* rows of table "Enrollment"
    nextId,        \* next Enrollment id the store generates
    users,         \* ids of the rows of table "User"
    courses,       \* courseId -> row of table "Course" (or NoCourse)
    sessions,      \* checkout sessions held by the payment gateway
    procs,         \* handler invocations in flight
    lastRes,       \* HTTP status of the response sent last
    fails,         \* store calls that have failed so far
    replay,        \* the event being replayed on its own, and its store writes
    receipts       \* sessionId -> receipt emails accepted for delivery

vars == <<enrollments, nextId, users, courses, sessions, procs, lastRes, fails, replay,
          receipts>>

\* ------------------------------------------------------- store primitives
\* prisma.enrollment.findUnique({ where: { stripeSessionId } })
findBySession(s) == {e \in enrollments : e.stripeSessionId = s}

\* prisma.enrollment.findUnique({ where: { userId_courseId } })
findByPair(u, c) == {e \in enrollments : e.userId = u /\ e.courseId = c}

\* prisma.enrollment.findUnique({ where: { id } })
findById(id) == {e \in enrollments : e.id = id}

\* The three unique indexes of "Enrollment": a write of row r is rejected
\* (P2002) when another row has the same (userId, courseId), the same
\* non-null stripeSessionId or the same non-null stripePaymentId.
UniqueNever(r) == FALSE
UniqueNoPair(r) ==
    \E e \in enrollments :
        /\ e.id # r.id
        /\ \/ (r.stripeSessionId # NULL /\ e.stripeSessionId = r.stripeSessionId)
           \/ (r.stripePaymentId # NULL /\ e.stripePaymentId = r.stripePaymentId)
UniqueViolation(r) ==
    \E e \in enrollments :
        /\ e.id # r.id
        /\ \/ (e.userId = r.userId /\ e.courseId = r.courseId)
           \/ (r.stripeSessionId # NULL /\ e.stripeSessionId = r.stripeSessionId)
           \/ (r.stripePaymentId # NULL /\ e.stripePaymentId = r.stripePaymentId)

\* Enrollment_userId_fkey / Enrollment_courseId_fkey: an insert is rejected
\* (P2003) when the user or the course row does not exist.
FKViolation(r) == r.userId \notin users \/ courses[r.courseId] = NoCourse

\* a new row as prisma.enrollment.create builds it: the columns the caller
\* gives, the column defaults for the rest
NewEnrollment(u, c, price, method, sess, pay) ==
    [id |-> nextId, userId |-> u, courseId |-> c, price |-> price,
     status |-> "PENDING", progress |-> 0, completedAt |-> NoTime,
     paymentMethod |-> method, stripeSessionId |-> sess, stripePaymentId |-> pay]

\* A store call may fail for infrastructure reasons (connection lost, pool
\* exhausted).  `fails` counts the failures so far when they are limited to
\* MaxFail; it stays Unlimited when any store call may fail at any time.
Unlimited == MaxFail + 1
CanFail == fails < MaxFail \/ fails = Unlimited
Failed == fails' = IF fails = Unlimited THEN fails ELSE fails + 1

\* ------------------------------------------------------------- processes
Idle == [op |-> "idle", pc |-> "", user |-> NULL, course |-> NULL,
         session |-> NULL, id |-> 0, val |-> 0, status |-> NULL,
         todo |-> {}, late |-> FALSE]

IsIdle(p) == procs[p].op = "idle"

\* No event is being replayed on its own.  While one is, `replay` names its
\* session and counts the store writes (insert or update) its deliveries make,
\* and nothing but deliveries of that event runs, one at a time.
NoReplay == [session |-> NULL, writes |-> 0, acks |-> 0]

\* a request is taken by the first free slot (the slots are interchangeable)
IsFree(p) ==
    /\ IsIdle(p) /\ \A q \in Procs : q < p => ~IsIdle(q)
    /\ replay = NoReplay

\* a delivery of the completed event of session s is taken likewise
IsFreeFor(p, s) ==
    /\ IsIdle(p) /\ \A q \in Procs : q < p => ~IsIdle(q)
    /\ replay # NoReplay => (replay.session = s /\ \A q \in Procs : IsIdle(q))

\* `lastRes` holds the status of the response sent last when the responses
\* are observed (<<0>> before the first one) and stays NotObserved otherwise
NotObserved == << >>
Observe(code) == lastRes' = IF lastRes = NotObserved THEN lastRes ELSE <<code>>

\* the handler of slot p sends its response and ends
Respond(p, code) ==
    /\ procs' = [procs EXCEPT ![p] = Idle]
    /\ Observe(code)

\* a handler that has not suspended yet answers at once
Reply(code) ==
    /\ Observe(code)
    /\ UNCHANGED procs

\* `receipts` counts the receipts sent for each session when they are
\* recorded and stays Unrecorded otherwise
Unrecorded == [s \in Sessions |-> MaxId + 1]
NoReceipts == [s \in Sessions |-> 0]

InitStore ==
    /\ enrollments = {}
    /\ nextId = 1
    /\ users = Users
    /\ courses \in [Courses -> [status : {"PUBLISHED"}, price : Prices]]
    /\ sessions = [s \in Sessions |-> [state |-> "none", userId |-> NULL,
                                       courseId |-> NULL, amount_total |-> 0]]
    /\ procs = [p \in Procs |-> Idle]
    /\ replay = NoReplay

\* any store call may fail at any time; the responses are not recorded
Init == InitStore /\ lastRes = NotObserved /\ fails = Unlimited /\ receipts = Unrecorded

\* at most MaxFail store calls fail
InitFaults == InitStore /\ lastRes = NotObserved /\ fails = 0 /\ receipts = Unrecorded

\* at most MaxFail store calls fail and every response is observed
InitRetry == InitStore /\ lastRes = <<0>> /\ fails = 0 /\ receipts = Unrecorded

\* likewise, and the receipts are recorded
InitReceipt == InitStore /\ lastRes = <<0>> /\ fails = 0 /\ receipts = NoReceipts


\* ------------------------------------------------- the payment gateway
\* unit_amount: Math.round(course.price * 100), a whole number of cents
ToCents(price) == (price + 5) \div 10

\* session.amount_total ? (session.amount_total / 100) : 0
SettledPrice(amount_total) == IF amount_total # 0 THEN amount_total * 10 ELSE 0

\* session.payment_intent: the gateway's payment id of a session
PaymentIntent(s) == IF s = "s1" THEN "pi1" ELSE "pi2"

UnusedSessions == {s \in Sessions : sessions[s].state = "none"}

\* the customer completes the hosted checkout: the gateway now owes the
\* backend a checkout.session.completed event for s
CustomerPays(s) ==
    /\ replay = NoReplay
    /\ sessions[s].state = "open"
    /\ sessions' = [sessions EXCEPT ![s].state = "paid"]
    /\ UNCHANGED <<enrollments, nextId, users, courses, replay, receipts, procs, lastRes, fails>>

\* the customer abandons the checkout: checkout.session.expired
SessionExpires(s) ==
    /\ replay = NoReplay
    /\ sessions[s].state = "open"
    /\ sessions' = [sessions EXCEPT ![s].state = "expired"]
    /\ UNCHANGED <<enrollments, nextId, users, courses, replay, receipts, procs, lastRes, fails>>

\* ------------------------------------------------- handleStripeWebhook
\* The response to a delivery of the completed event of session s: a 2xx
\* answer ends the gateway's redelivery, anything else keeps the event owed.
\* `wrote` is 1 when the delivery has written to the store, else 0.
Answered(s, code, wrote) ==
    /\ sessions' = [sessions EXCEPT ![s].state =
                        IF code = 200 THEN "acked" ELSE @]
    /\ replay' = IF replay.session = s
                 THEN [replay EXCEPT
                          !.writes = IF @ + wrote > 2 THEN 2 ELSE @ + wrote,
                          !.acks = IF code = 200 /\ @ < 2 THEN @ + 1 ELSE @]
                 ELSE replay

RespondWebhook(p, s, code, wrote) == Respond(p, code) /\ Answered(s, code, wrote)

ReplyWebhook(s, code) == Reply(code) /\ Answered(s, code, 0)

\* lines 1271-1276: catch (dbError) answers 500 whatever the error is
\* (a failed store call, P2002, P2003, P2025)
CatchAcknowledges(dbError) == 200
CatchDbError(dbError) == 500

\* lines 1157-1165: if (existingBySession)
AlreadyProcessedNever(s) == FALSE
AlreadyProcessed(s) == findBySession(s) # {}

\* lines 1137-1143: stripe.webhooks.constructEvent throws unless the
\* signature of the delivery verifies
SignatureNeverFails(verified) == FALSE
SignatureFails(verified) == ~verified

\* lines 1126-1165: signature check, event type, metadata, and the lookup
\* by stripeSessionId (issued before the handler first suspends)
handleStripeWebhook_bySession(p, s, verified) ==
    /\ IsFreeFor(p, s)
    /\ sessions[s].state \in {"paid", "acked"}
    /\ UNCHANGED <<enrollments, nextId, users, courses, receipts>>
    /\ IF SignatureFails(verified)
       THEN /\ Reply(200)
            /\ UNCHANGED <<sessions, fails, replay>>
       ELSE \/ /\ CanFail
               /\ Failed
               /\ ReplyWebhook(s, CatchDbError("P1001"))
            \/ /\ UNCHANGED fails
               /\ IF AlreadyProcessed(s)
                  THEN ReplyWebhook(s, 200)
                  ELSE /\ procs' = [procs EXCEPT ![p] =
                              [Idle EXCEPT !.op = "webhook", !.pc = "byPair",
                                           !.session = s,
                                           !.late = (sessions[s].state = "acked"),
                                           !.user = sessions[s].userId,
                                           !.course = sessions[s].courseId]]
                       /\ UNCHANGED <<sessions, lastRes, replay>>

\* lines 1174-1180: if (existingEnrollment.status === 'REFUNDED')
RefundedGuardNever(e) == FALSE
RefundedGuard(e) == e.status = "REFUNDED"

\* lines 1167-1180: the lookup by (userId, courseId) and the refunded guard
handleStripeWebhook_byPair(p) ==
    LET me == procs[p]
        found == findByPair(me.user, me.course)
    IN  /\ me.op = "webhook" /\ me.pc = "byPair"
        /\ UNCHANGED <<enrollments, nextId, users, courses, receipts>>
        /\ \/ /\ CanFail
              /\ Failed
              /\ RespondWebhook(p, me.session, CatchDbError("P1001"), 0)
           \/ /\ UNCHANGED fails
              /\ IF found = {}
                 THEN /\ procs' = [procs EXCEPT ![p].pc = "create"]
                      /\ UNCHANGED <<sessions, lastRes, replay>>
                 ELSE LET existingEnrollment == CHOOSE e \in found : TRUE
                      IN  IF RefundedGuard(existingEnrollment)
                          THEN RespondWebhook(p, me.session, 200, 0)
                          ELSE /\ procs' = [procs EXCEPT ![p].pc = "update",
                                                         ![p].id = existingEnrollment.id]
                               /\ UNCHANGED <<sessions, lastRes, replay>>

\* lines 1185-1189: data of the update of the existing row
AttachGatewaySettled(old, s, pay) ==
    [old EXCEPT !.stripeSessionId = s, !.stripePaymentId = pay,
                !.paymentMethod = "stripe",
                !.price = SettledPrice(sessions[s].amount_total)]
AttachGatewayReactivate(old, s, pay) ==
    [old EXCEPT !.stripeSessionId = s, !.stripePaymentId = pay,
                !.paymentMethod = "stripe", !.status = "PENDING"]
AttachGateway(old, s, pay) ==
    [old EXCEPT !.stripeSessionId = s, !.stripePaymentId = pay,
                !.paymentMethod = "stripe"]

\* lines 1182-1192: attach the gateway identifiers to the existing row;
\* an error goes to the catch of 1271-1276
handleStripeWebhook_update(p) ==
    LET me == procs[p]
        found == findById(me.id)
    IN  /\ me.op = "webhook" /\ me.pc = "update"
        /\ UNCHANGED <<nextId, users, courses, receipts>>
        /\ \/ /\ CanFail
              /\ Failed
              /\ RespondWebhook(p, me.session, CatchDbError("P1001"), 0)
              /\ UNCHANGED enrollments
           \/ /\ UNCHANGED fails
              /\ IF found = {}
                 THEN \* P2025: the row has been deleted meanwhile
                      /\ RespondWebhook(p, me.session, CatchDbError("P2025"), 0)
                      /\ UNCHANGED enrollments
                 ELSE LET old == CHOOSE e \in found : TRUE
                          new == AttachGateway(old, me.session, PaymentIntent(me.session))
                      IN  IF UniqueViolation(new)
                          THEN /\ RespondWebhook(p, me.session, CatchDbError("P2002"), 0)
                               /\ UNCHANGED enrollments
                          ELSE /\ enrollments' = (enrollments \ {old}) \cup {new}
                               /\ RespondWebhook(p, me.session, 200, 1)

\* lines 1197-1206: data of the insert
WebhookEnrollmentCatalog(u, c, s) ==
    NewEnrollment(u, c, courses[c].price, "stripe", s, PaymentIntent(s))
WebhookEnrollment(u, c, s) ==
    NewEnrollment(u, c, SettledPrice(sessions[s].amount_total), "stripe",
                  s, PaymentIntent(s))

\* lines 1211-1269: after the insert the handler looks the user up and
\* sends the receipt email.  The lookup may fail like any store call;
\* sendPaymentEmail (955-974) hands the mail to the SMTP server, or returns
\* without sending when SMTP is not configured, or throws.
ReceiptOutcomes == {"sent", "lookupFailed", "sendFailed"}

\* lines 1267-1269 and 1286: catch (emailError) logs and the handler goes on
\* to its last line, res.status(200)
AfterReceiptRetry(outcome) == IF outcome = "sent" THEN 200 ELSE 500
AfterReceipt(outcome) == 200

Receipt(s, outcome) ==
    /\ IF outcome = "lookupFailed" THEN CanFail /\ Failed ELSE UNCHANGED fails
    /\ receipts' = IF outcome = "sent" /\ receipts # Unrecorded
                   THEN [receipts EXCEPT ![s] = @ + 1]
                   ELSE receipts

\* lines 1195-1286: insert the new row; an error goes to the catch of
\* 1271-1276.  The receipt follows the insert in the same step.
handleStripeWebhook_create(p) ==
    LET me == procs[p]
        new == WebhookEnrollment(me.user, me.course, me.session)
    IN  /\ me.op = "webhook" /\ me.pc = "create"
        /\ UNCHANGED <<users, courses>>
        /\ \/ /\ CanFail
              /\ Failed
              /\ RespondWebhook(p, me.session, CatchDbError("P1001"), 0)
              /\ UNCHANGED <<enrollments, nextId, receipts>>
           \/ IF FKViolation(new)
              THEN /\ RespondWebhook(p, me.session, CatchDbError("P2003"), 0)
                   /\ UNCHANGED <<enrollments, nextId, fails, receipts>>
              ELSE IF UniqueViolation(new)
              THEN /\ RespondWebhook(p, me.session, CatchDbError("P2002"), 0)
                   /\ UNCHANGED <<enrollments, nextId, fails, receipts>>
              ELSE /\ nextId <= MaxId
                   /\ enrollments' = enrollments \cup {new}
                   /\ nextId' = nextId + 1
                   /\ \E outcome \in ReceiptOutcomes :
                          /\ Receipt(me.session, outcome)
                          /\ RespondWebhook(p, me.session, AfterReceipt(outcome), 1)

\* lines 1279-1286: checkout.session.expired is logged only
handleStripeWebhook_expired(p, s) ==
    /\ IsFree(p)
    /\ sessions[s].state = "expired"
    /\ Reply(200)
    /\ UNCHANGED <<enrollments, nextId, users, courses, replay, receipts, sessions, fails>>

\* lines 1145, 1280 and 1286: a verified event of any other type falls
\* through both tests and is answered 200
handleStripeWebhook_other(p) ==
    /\ IsFree(p)
    /\ Reply(200)
    /\ UNCHANGED <<enrollments, nextId, users, courses, replay, receipts, sessions, fails>>

\* lines 1127-1133: STRIPE_WEBHOOK_SECRET is not set in the environment
handleStripeWebhook_noSecret(p) ==
    /\ IsFree(p)
    /\ Reply(500)
    /\ UNCHANGED <<enrollments, nextId, users, courses, replay, receipts, sessions, fails>>

\* --------------------------------------------------- the error handler
\* errorHandler: P2002 -> 409, P2025 -> 404, anything else err.status || 500
errorHandlerStatusOnly(code) == 500
errorHandler(code) ==
    IF code = "P2002" THEN 409 ELSE IF code = "P2025" THEN 404 ELSE 500

\* ---------------------------------------------------- createEnrollment
Undefined == -1
PriceInputs == {Undefined, 10}

\* price !== undefined ? parseFloat(price) : course.price
EnrollmentPrice(price, c) == IF price # Undefined THEN price ELSE courses[c].price

\* lines 164-211: validation and the three lookups
createEnrollment_read(p, userId, courseId, price) ==
    /\ IsFree(p)
    /\ UNCHANGED <<enrollments, nextId, users, courses, replay, receipts, sessions>>
    /\ IF userId = NULL
       THEN Reply(400) /\ UNCHANGED fails
       ELSE \/ /\ CanFail
               /\ Failed
               /\ Reply(500)
            \/ /\ UNCHANGED fails
               /\ IF userId \notin users THEN Reply(404)
                  ELSE IF courses[courseId] = NoCourse THEN Reply(404)
                  ELSE IF findByPair(userId, courseId) # {} THEN Reply(409)
                  ELSE /\ procs' = [procs EXCEPT ![p] =
                              [Idle EXCEPT !.op = "createEnrollment", !.pc = "create",
                                           !.user = userId, !.course = courseId,
                                           !.val = EnrollmentPrice(price, courseId)]]
                       /\ UNCHANGED lastRes

\* prisma.enrollment.create of a handler that answers 201 and hands any
\* error to errorHandler (createEnrollment 213-247, purchaseCourse 775-805,
\* createCheckoutSession 1044-1062)
DirectCreate(p, new) ==
    /\ UNCHANGED <<users, courses, replay, receipts, sessions>>
    /\ \/ /\ CanFail
          /\ Failed
          /\ Respond(p, errorHandler("P1001"))
          /\ UNCHANGED <<enrollments, nextId>>
       \/ /\ UNCHANGED fails
          /\ IF UniqueViolation(new)
             THEN /\ Respond(p, errorHandler("P2002"))
                  /\ UNCHANGED <<enrollments, nextId>>
             ELSE IF FKViolation(new)
             THEN /\ Respond(p, errorHandler("P2003"))
                  /\ UNCHANGED <<enrollments, nextId>>
             ELSE /\ nextId <= MaxId
                  /\ enrollments' = enrollments \cup {new}
                  /\ nextId' = nextId + 1
                  /\ Respond(p, 201)

\* lines 213-247
createEnrollment_create(p) ==
    LET me == procs[p]
    IN  /\ me.op = "createEnrollment" /\ me.pc = "create"
        /\ DirectCreate(p, NewEnrollment(me.user, me.course, me.val, NULL, NULL, NULL))

\* ------------------------------------------------------- purchaseCourse
\* lines 732-772
purchaseCourse_read(p, userId, courseId) ==
    /\ IsFree(p)
    /\ UNCHANGED <<enrollments, nextId, users, courses, replay, receipts, sessions>>
    /\ \/ /\ CanFail
          /\ Failed
          /\ Reply(500)
       \/ /\ UNCHANGED fails
          /\ IF courses[courseId] = NoCourse THEN Reply(404)
             ELSE IF courses[courseId].status # "PUBLISHED" THEN Reply(400)
             ELSE IF findByPair(userId, courseId) # {} THEN Reply(409)
             ELSE /\ procs' = [procs EXCEPT ![p] =
                         [Idle EXCEPT !.op = "purchaseCourse", !.pc = "create",
                                      !.user = userId, !.course = courseId,
                                      !.val = courses[courseId].price]]
                  /\ UNCHANGED lastRes

\* lines 774-805
purchaseCourse_create(p) ==
    LET me == procs[p]
    IN  /\ me.op = "purchaseCourse" /\ me.pc = "create"
        /\ DirectCreate(p, NewEnrollment(me.user, me.course, me.val, NULL, NULL, NULL))

\* --------------------------------------------------- enrollInAllCourses
\* publishedCourses.filter((c) => !enrolledCourseIds.has(c.id))
coursesToEnroll(userId) ==
    {c \in Courses : /\ courses[c] # NoCourse
                     /\ courses[c].status = "PUBLISHED"
                     /\ findByPair(userId, c) = {}}

\* lines 900-929
enrollInAllCourses_read(p, userId) ==
    /\ IsFree(p)
    /\ UNCHANGED <<enrollments, nextId, users, courses, replay, receipts, sessions>>
    /\ \/ /\ CanFail
          /\ Failed
          /\ Reply(500)
       \/ /\ UNCHANGED fails
          /\ IF coursesToEnroll(userId) = {} THEN Reply(200)
             ELSE /\ procs' = [procs EXCEPT ![p] =
                         [Idle EXCEPT !.op = "enrollInAllCourses", !.pc = "createMany",
                                      !.user = userId,
                                      !.todo = coursesToEnroll(userId)]]
                  /\ UNCHANGED lastRes

\* the rows of one createMany: price 0, ids in the order of insertion
RowsOf(userId, todo) ==
    LET order == CHOOSE f \in [1..Cardinality(todo) -> todo] :
                     \A i, j \in 1..Cardinality(todo) : f[i] = f[j] => i = j
    IN  {[NewEnrollment(userId, order[i], 0, NULL, NULL, NULL)
             EXCEPT !.id = nextId + i - 1] : i \in 1..Cardinality(todo)}

\* lines 931-949: createMany is one statement, it inserts every row or none
enrollInAllCourses_createMany(p) ==
    LET me == procs[p]
        rows == RowsOf(me.user, me.todo)
    IN  /\ me.op = "enrollInAllCourses" /\ me.pc = "createMany"
        /\ UNCHANGED <<users, courses, replay, receipts, sessions>>
        /\ \/ /\ CanFail
              /\ Failed
              /\ Respond(p, errorHandler("P1001"))
              /\ UNCHANGED <<enrollments, nextId>>
           \/ /\ UNCHANGED fails
              /\ IF \E r \in rows : UniqueViolation(r)
                 THEN /\ Respond(p, errorHandler("P2002"))
                      /\ UNCHANGED <<enrollments, nextId>>
                 ELSE IF \E r \in rows : FKViolation(r)
                 THEN /\ Respond(p, errorHandler("P2003"))
                      /\ UNCHANGED <<enrollments, nextId>>
                 ELSE /\ nextId + Cardinality(rows) - 1 <= MaxId
                      /\ enrollments' = enrollments \cup rows
                      /\ nextId' = nextId + Cardinality(rows)
                      /\ Respond(p, 201)


\* ------------------------------------------------ createCheckoutSession
\* line 1043: if (course.price === 0)
FreeCourseAlways(course) == TRUE
FreeCourse(course) == course.price = 0

\* lines 1044-1052: data of the insert for a free course
FreeEnrollmentUntagged(u, c) == NewEnrollment(u, c, 0, NULL, NULL, NULL)
FreeEnrollment(u, c) == NewEnrollment(u, c, 0, "free", NULL, NULL)

\* lines 981-1071: validation, the three lookups, the free-course branch
\* and the check that the gateway client is configured
createCheckoutSession_read(p, userId, courseId, stripe) ==
    /\ IsFree(p)
    /\ UNCHANGED <<enrollments, nextId, users, courses, replay, receipts, sessions>>
    /\ IF courseId = NULL
       THEN Reply(400) /\ UNCHANGED fails
       ELSE \/ /\ CanFail
               /\ Failed
               /\ Reply(500)
            \/ /\ UNCHANGED fails
               /\ IF courses[courseId] = NoCourse THEN Reply(404)
                  ELSE IF courses[courseId].status # "PUBLISHED" THEN Reply(400)
                  ELSE IF findByPair(userId, courseId) # {} THEN Reply(409)
                  ELSE IF userId \notin users THEN Reply(404)
                  ELSE IF FreeCourse(courses[courseId])
                  THEN /\ procs' = [procs EXCEPT ![p] =
                              [Idle EXCEPT !.op = "createCheckoutSession", !.pc = "create",
                                           !.user = userId, !.course = courseId,
                                           !.val = courses[courseId].price]]
                       /\ UNCHANGED lastRes
                  ELSE IF ~stripe THEN Reply(503)
                  ELSE /\ procs' = [procs EXCEPT ![p] =
                              [Idle EXCEPT !.op = "createCheckoutSession", !.pc = "session",
                                           !.user = userId, !.course = courseId,
                                           !.val = courses[courseId].price]]
                       /\ UNCHANGED lastRes

\* lines 1042-1063: the free course is enrolled directly
createCheckoutSession_create(p) ==
    LET me == procs[p]
    IN  /\ me.op = "createCheckoutSession" /\ me.pc = "create"
        /\ DirectCreate(p, FreeEnrollment(me.user, me.course))

\* lines 1076-1118: stripe.checkout.sessions.create; a gateway error is
\* thrown to errorHandler
createCheckoutSession_session(p, reachable) ==
    LET me == procs[p]
    IN  /\ me.op = "createCheckoutSession" /\ me.pc = "session"
        /\ UNCHANGED <<enrollments, nextId, users, courses, replay, receipts, fails>>
        /\ IF ~reachable
           THEN /\ Respond(p, errorHandler("StripeConnectionError"))
                /\ UNCHANGED sessions
           ELSE /\ UnusedSessions # {}
                /\ LET s == CHOOSE x \in UnusedSessions : x = "s1" \/ "s1" \notin UnusedSessions
                   IN  sessions' = [sessions EXCEPT ![s] =
                           [state |-> "open", userId |-> me.user,
                            courseId |-> me.course,
                            amount_total |-> ToCents(me.val)]]
                /\ Respond(p, 200)

\* ------------------------------------------------ updateEnrollmentStatus
StatusInputs == {"", "pending", "COMPLETED", "REFUNDED", "CANCELLED"}

\* status.toUpperCase()
toUpperCaseOmitted(str) == str
toUpperCase(str) == IF str = "pending" THEN "PENDING" ELSE str

\* lines 255-284
updateEnrollmentStatus_read(p, id, status) ==
    /\ IsFree(p)
    /\ UNCHANGED <<enrollments, nextId, users, courses, replay, receipts, sessions>>
    /\ IF status = "" \/ toUpperCase(status) \notin EnrollmentStatus
       THEN Reply(400) /\ UNCHANGED fails
       ELSE \/ /\ CanFail
               /\ Failed
               /\ Reply(500)
            \/ /\ UNCHANGED fails
               /\ findById(id) = {}
               /\ Reply(404)

\* lines 286-294: updateData
StatusUpdateNoProgress(old, status, now) ==
    IF status = "COMPLETED"
    THEN [old EXCEPT !.status = status, !.completedAt = now]
    ELSE [old EXCEPT !.status = status]
StatusUpdate(old, status, now) ==
    IF status = "COMPLETED"
    THEN [old EXCEPT !.status = status, !.completedAt = now, !.progress = 100]
    ELSE [old EXCEPT !.status = status]

\* prisma.enrollment.update({ where: { id }, data }) of a handler that
\* answers 200 and hands any error to errorHandler; a missing row is P2025
DirectUpdate(p, id, new) ==
    /\ UNCHANGED <<nextId, users, courses, replay, receipts, sessions>>
    /\ \/ /\ CanFail
          /\ Failed
          /\ Respond(p, errorHandler("P1001"))
          /\ UNCHANGED enrollments
       \/ /\ UNCHANGED fails
          /\ IF findById(id) = {}
             THEN /\ Respond(p, errorHandler("P2025"))
                  /\ UNCHANGED enrollments
             ELSE /\ enrollments' = (enrollments \ findById(id)) \cup {new}
                  /\ Respond(p, 200)

\* the row with this id as the store holds it now (any row if there is none)
RowOf(id) == IF findById(id) = {} THEN NewEnrollment(NULL, NULL, 0, NULL, NULL, NULL)
             ELSE CHOOSE e \in findById(id) : TRUE

\* lines 255-321 for a valid status.  The update uses nothing of what the
\* lookup of 275-284 returned, and it fails with P2025 -> 404 when the row
\* is gone, which is the answer of the lookup too: the handler acts on the
\* store as it is at the update.
updateEnrollmentStatus_update(p, id, status) ==
    /\ IsFree(p)
    /\ status # "" /\ toUpperCase(status) \in EnrollmentStatus
    /\ findById(id) # {}
    /\ \E now \in Times :
          DirectUpdate(p, id, StatusUpdate(RowOf(id), toUpperCase(status), now))

\* ---------------------------------------------- updateEnrollmentProgress
\* progress of the request body, in tenths
ProgressInputs == {-10, 5, 1000, 1005}

\* parseInt(progress)
parseInt(x) == x \div 10

\* the principals that hold a valid token: verifyToken sets req.userId to
\* the id in the token and admits every one of them
Callers == Users \cup {"u2"}

\* lines 332-353; userId is req.userId, which the handler does not read
updateEnrollmentProgress_read(p, userId, id, progress) ==
    /\ IsFree(p)
    /\ UNCHANGED <<enrollments, nextId, users, courses, replay, receipts, sessions>>
    /\ IF progress < 0 \/ progress > 1000
       THEN Reply(400) /\ UNCHANGED fails
       ELSE \/ /\ CanFail
               /\ Failed
               /\ Reply(500)
            \/ /\ UNCHANGED fails
               /\ IF findById(id) = {} THEN Reply(404)
                  ELSE /\ procs' = [procs EXCEPT ![p] =
                              [Idle EXCEPT !.op = "updateEnrollmentProgress", !.pc = "update",
                                           !.user = userId,
                                           !.id = id, !.val = progress,
                                           !.status = RowOf(id).status]]
                       /\ UNCHANGED lastRes

\* lines 355-363: updateData; seen is the status the handler has read
ProgressUpdateNoStamp(old, progress, seen, now) ==
    IF parseInt(progress) = 100 /\ seen # "COMPLETED"
    THEN [old EXCEPT !.progress = parseInt(progress), !.status = "COMPLETED"]
    ELSE [old EXCEPT !.progress = parseInt(progress)]
ProgressUpdate(old, progress, seen, now) ==
    IF parseInt(progress) = 100 /\ seen # "COMPLETED"
    THEN [old EXCEPT !.progress = parseInt(progress), !.status = "COMPLETED",
                     !.completedAt = now]
    ELSE [old EXCEPT !.progress = parseInt(progress)]

\* lines 365-377
updateEnrollmentProgress_update(p) ==
    LET me == procs[p]
    IN  /\ me.op = "updateEnrollmentProgress" /\ me.pc = "update"
        /\ \E now \in Times :
              DirectUpdate(p, me.id, ProgressUpdate(RowOf(me.id), me.val, me.status, now))

\* -------------------------------------------------------- processRefund
\* lines 385-405
processRefund_read(p, id) ==
    /\ IsFree(p)
    /\ UNCHANGED <<enrollments, nextId, users, courses, replay, receipts, sessions>>
    /\ \/ /\ CanFail
          /\ Failed
          /\ Reply(500)
       \/ /\ UNCHANGED fails
          /\ IF findById(id) = {} THEN Reply(404)
             ELSE IF RowOf(id).status = "REFUNDED" THEN Reply(400)
             ELSE /\ procs' = [procs EXCEPT ![p] =
                         [Idle EXCEPT !.op = "processRefund", !.pc = "update", !.id = id]]
                  /\ UNCHANGED lastRes

\* lines 407-411: data
RefundUpdateDetach(old) ==
    [old EXCEPT !.status = "REFUNDED", !.stripeSessionId = NULL,
                !.stripePaymentId = NULL]
RefundUpdateReset(old) ==
    [old EXCEPT !.status = "REFUNDED", !.progress = 0, !.completedAt = NoTime]
RefundUpdate(old) == [old EXCEPT !.status = "REFUNDED"]

\* lines 407-437
processRefund_update(p) ==
    LET me == procs[p]
    IN  /\ me.op = "processRefund" /\ me.pc = "update"
        /\ DirectUpdate(p, me.id, RefundUpdate(RowOf(me.id)))

\* ------------------------------------------------------ deleteEnrollment
\* lines 445-471.  The delete uses nothing of what the lookup of 449-458
\* returned, and it fails with P2025 -> 404 when the row is gone, which is
\* the answer of the lookup too: the handler acts on the store as it is at
\* the delete.
deleteEnrollment(p, id) ==
    /\ IsFree(p)
    /\ UNCHANGED <<nextId, users, courses, replay, receipts, sessions>>
    /\ \/ /\ CanFail
          /\ Failed
          /\ Respond(p, errorHandler("P1001"))
          /\ UNCHANGED enrollments
       \/ /\ UNCHANGED fails
          /\ IF findById(id) = {}
             THEN /\ Respond(p, 404)
                  /\ UNCHANGED enrollments
             ELSE /\ enrollments' = enrollments \ findById(id)
                  /\ Respond(p, 200)

\* ------------------------------------------------------------ the catalog
\* updateCourse (course controller 373-485) with a price in the body:
\* updateData.price = parseFloat(price) || 0
updateCourse(c, price) ==
    /\ courses[c] # NoCourse
    /\ UNCHANGED <<enrollments, nextId, users, replay, receipts, sessions, procs>>
    /\ \/ /\ CanFail
          /\ Failed
          /\ Observe(500)
          /\ UNCHANGED courses
       \/ /\ UNCHANGED fails
          /\ courses' = [courses EXCEPT ![c].price = price]
          /\ Observe(200)

\* toggleCourseStatus (course controller 544-583):
\* status ? status.toUpperCase() : the other status
toggleCourseStatus(c, status) ==
    LET newStatus == IF status # NULL THEN status
                     ELSE IF courses[c].status = "DRAFT" THEN "PUBLISHED"
                     ELSE "DRAFT"
    IN  /\ courses[c] # NoCourse
        /\ UNCHANGED <<enrollments, nextId, users, replay, receipts, sessions, procs>>
        /\ \/ /\ CanFail
              /\ Failed
              /\ Observe(500)
              /\ UNCHANGED courses
           \/ /\ UNCHANGED fails
              /\ courses' = [courses EXCEPT ![c].status = newStatus]
              /\ Observe(200)

\* ---------------------------------------------------- users and courses
\* Enrollment_userId_fkey / Enrollment_courseId_fkey ... ON DELETE CASCADE:
\* the rows that go with a deleted user or course
Cascade(u, c) == {e \in enrollments : e.userId = u \/ e.courseId = c}

\* deleteUser (user controller 267-293).  The delete uses nothing of what
\* the lookup returned, and it fails with P2025 -> 404 when the row is
\* gone, which is the answer of the lookup too.
deleteUser(p, id) ==
    /\ IsFree(p)
    /\ UNCHANGED <<nextId, courses, replay, receipts, sessions>>
    /\ \/ /\ CanFail
          /\ Failed
          /\ Respond(p, errorHandler("P1001"))
          /\ UNCHANGED <<enrollments, users>>
       \/ /\ UNCHANGED fails
          /\ IF id \notin users
             THEN /\ Respond(p, 404)
                  /\ UNCHANGED <<enrollments, users>>
             ELSE /\ users' = users \ {id}
                  /\ enrollments' = enrollments \ Cascade(id, NULL)
                  /\ Respond(p, 200)

\* deleteCourse (course controller 497-523): the lookup with the count of
\* the course's enrollments
deleteCourse_read(p, id) ==
    /\ IsFree(p)
    /\ UNCHANGED <<enrollments, nextId, users, courses, replay, receipts, sessions>>
    /\ \/ /\ CanFail
          /\ Failed
          /\ Reply(500)
       \/ /\ UNCHANGED fails
          /\ IF courses[id] = NoCourse THEN Reply(404)
             ELSE IF Cardinality(Cascade(NULL, id)) > 0 THEN Reply(400)
             ELSE /\ procs' = [procs EXCEPT ![p] =
                         [Idle EXCEPT !.op = "deleteCourse", !.pc = "delete",
                                      !.course = id]]
                  /\ UNCHANGED lastRes

\* deleteCourse (course controller 525-536): prisma.course.delete
deleteCourse_delete(p) ==
    LET me == procs[p]
    IN  /\ me.op = "deleteCourse" /\ me.pc = "delete"
        /\ UNCHANGED <<nextId, users, replay, receipts, sessions>>
        /\ \/ /\ CanFail
              /\ Failed
              /\ Respond(p, errorHandler("P1001"))
              /\ UNCHANGED <<enrollments, courses>>
           \/ /\ UNCHANGED fails
              /\ IF courses[me.course] = NoCourse
                 THEN /\ Respond(p, errorHandler("P2025"))
                      /\ UNCHANGED <<enrollments, courses>>
                 ELSE /\ courses' = [courses EXCEPT ![me.course] = NoCourse]
                      /\ enrollments' = enrollments \ Cascade(NULL, me.course)
                      /\ Respond(p, 200)

\* ------------------------------------------------------------ the system
Next ==
    \/ \E s \in Sessions : CustomerPays(s)
    \/ \E s \in Sessions : SessionExpires(s)
    \/ \E p \in Procs, s \in Sessions, v \in BOOLEAN : handleStripeWebhook_bySession(p, s, v)
    \/ \E p \in Procs : handleStripeWebhook_byPair(p)
    \/ \E p \in Procs : handleStripeWebhook_update(p)
    \/ \E p \in Procs : handleStripeWebhook_create(p)
    \/ \E p \in Procs, s \in Sessions : handleStripeWebhook_expired(p, s)
    \/ \E p \in Procs, u \in Users \cup {NULL}, c \in Courses, x \in PriceInputs :
           createEnrollment_read(p, u, c, x)
    \/ \E p \in Procs : createEnrollment_create(p)
    \/ \E p \in Procs, u \in Users, c \in Courses : purchaseCourse_read(p, u, c)
    \/ \E p \in Procs : purchaseCourse_create(p)
    \/ \E p \in Procs, u \in Users : enrollInAllCourses_read(p, u)
    \/ \E p \in Procs : enrollInAllCourses_createMany(p)
    \/ \E p \in Procs, u \in Users, c \in Courses \cup {NULL}, k \in BOOLEAN :
           createCheckoutSession_read(p, u, c, k)
    \/ \E p \in Procs : createCheckoutSession_create(p)
    \/ \E p \in Procs, r \in BOOLEAN : createCheckoutSession_session(p, r)
    \/ \E p \in Procs, i \in Ids, st \in StatusInputs : updateEnrollmentStatus_read(p, i, st)
    \/ \E p \in Procs, i \in Ids, st \in StatusInputs : updateEnrollmentStatus_update(p, i, st)
    \/ \E p \in Procs, u \in Users, i \in Ids, x \in ProgressInputs :
           updateEnrollmentProgress_read(p, u, i, x)
    \/ \E p \in Procs : updateEnrollmentProgress_update(p)
    \/ \E p \in Procs, i \in Ids : processRefund_read(p, i)
    \/ \E p \in Procs : processRefund_update(p)
    \/ \E p \in Procs, i \in Ids : deleteEnrollment(p, i)

Spec == Init /\ [][Next]_vars

\* From a quiescent state the gateway delivers the completed event of a
\* session that has not been acknowledged yet, again and again, while
\* nothing else runs.
StartReplay(s) ==
    /\ replay = NoReplay
    /\ \A q \in Procs : IsIdle(q)
    /\ sessions[s].state = "paid"
    /\ replay' = [session |-> s, writes |-> 0, acks |-> 0]
    /\ UNCHANGED <<enrollments, nextId, users, courses, sessions, procs, lastRes, fails,
                   receipts>>

NextReplay ==
    \/ Next
    \/ \E s \in Sessions : StartReplay(s)

SpecReplay == Init /\ [][NextReplay]_vars

SpecFaults == InitFaults /\ [][Next]_vars

\* -------------------------------------------------- progress and status
\* The operations on an Enrollment that exists: the admin creates it, then
\* progress updates, status updates, refunds and the delete run on it in
\* any interleaving, and at most MaxFail store calls fail.
NextCompletion ==
    \/ \E p \in Procs, u \in Users, c \in Courses, x \in PriceInputs :
           createEnrollment_read(p, u, c, x)
    \/ \E p \in Procs : createEnrollment_create(p)
    \/ \E p \in Procs, i \in Ids, st \in StatusInputs : updateEnrollmentStatus_read(p, i, st)
    \/ \E p \in Procs, i \in Ids, st \in StatusInputs : updateEnrollmentStatus_update(p, i, st)
    \/ \E p \in Procs, u \in Users, i \in Ids, x \in ProgressInputs :
           updateEnrollmentProgress_read(p, u, i, x)
    \/ \E p \in Procs : updateEnrollmentProgress_update(p)
    \/ \E p \in Procs, i \in Ids : processRefund_read(p, i)
    \/ \E p \in Procs : processRefund_update(p)
    \/ \E p \in Procs, i \in Ids : deleteEnrollment(p, i)

SpecCompletion == InitFaults /\ [][NextCompletion]_vars

\* ---------------------------------------------------------- the lifecycle
\* The admin creates an Enrollment and updates its status while any holder
\* of a token updates its progress: every response is observed and at most
\* MaxFail store calls fail.
NextLifecycle ==
    \/ \E p \in Procs, u \in Users, c \in Courses, x \in PriceInputs :
           createEnrollment_read(p, u, c, x)
    \/ \E p \in Procs : createEnrollment_create(p)
    \/ \E p \in Procs, i \in Ids, st \in StatusInputs : updateEnrollmentStatus_read(p, i, st)
    \/ \E p \in Procs, i \in Ids, st \in StatusInputs : updateEnrollmentStatus_update(p, i, st)
    \/ \E p \in Procs, u \in Callers, i \in Ids, x \in ProgressInputs :
           updateEnrollmentProgress_read(p, u, i, x)
    \/ \E p \in Procs : updateEnrollmentProgress_update(p)

SpecLifecycle == InitRetry /\ [][NextLifecycle]_vars

\* ------------------------------------------------------------ the removal
\* The admin creates and deletes enrollments and deletes users and courses:
\* every response is observed and at most MaxFail store calls fail.
NextRemoval ==
    \/ \E p \in Procs, u \in Users, c \in Courses, x \in PriceInputs :
           createEnrollment_read(p, u, c, x)
    \/ \E p \in Procs : createEnrollment_create(p)
    \/ \E p \in Procs, i \in Ids, st \in StatusInputs : updateEnrollmentStatus_update(p, i, st)
    \/ \E p \in Procs, i \in Ids : deleteEnrollment(p, i)
    \/ \E p \in Procs, u \in Users : deleteUser(p, u)
    \/ \E p \in Procs, c \in Courses : deleteCourse_read(p, c)
    \/ \E p \in Procs : deleteCourse_delete(p)

SpecRemoval == InitRetry /\ [][NextRemoval]_vars

\* ------------------------------------------- the catalog and the checkout
\* The checkout and its confirmation while the admin changes the price of
\* the course and creates and refunds enrollments: every response
\* is observed and at most MaxFail store calls fail.
NextCatalog ==
    \/ \E c \in Courses, x \in Prices : updateCourse(c, x)
    \/ \E s \in Sessions : CustomerPays(s)
    \/ \E s \in Sessions : SessionExpires(s)
    \/ \E p \in Procs : handleStripeWebhook_noSecret(p)
    \/ \E p \in Procs, s \in Sessions, v \in BOOLEAN : handleStripeWebhook_bySession(p, s, v)
    \/ \E p \in Procs : handleStripeWebhook_byPair(p)
    \/ \E p \in Procs : handleStripeWebhook_update(p)
    \/ \E p \in Procs : handleStripeWebhook_create(p)
    \/ \E p \in Procs, s \in Sessions : handleStripeWebhook_expired(p, s)
    \/ \E p \in Procs, u \in Users, c \in Courses, x \in PriceInputs :
           createEnrollment_read(p, u, c, x)
    \/ \E p \in Procs : createEnrollment_create(p)
    \/ \E p \in Procs, u \in Users, c \in Courses, k \in BOOLEAN :
           createCheckoutSession_read(p, u, c, k)
    \/ \E p \in Procs : createCheckoutSession_create(p)
    \/ \E p \in Procs, r \in BOOLEAN : createCheckoutSession_session(p, r)
    \/ \E p \in Procs, i \in Ids : processRefund_read(p, i)
    \/ \E p \in Procs : processRefund_update(p)

SpecCatalog == InitRetry /\ [][NextCatalog]_vars

\* ------------------------------------------------- the direct enrollment
\* The entry points that enroll directly while the admin publishes and
\* unpublishes the course and refunds enrollments: every response is
\* observed and at most MaxFail store calls fail.
NextDirect ==
    \/ \E c \in Courses, st \in {NULL, "DRAFT", "PUBLISHED"} : toggleCourseStatus(c, st)
    \/ \E p \in Procs, u \in Users, c \in Courses, x \in PriceInputs :
           createEnrollment_read(p, u, c, x)
    \/ \E p \in Procs : createEnrollment_create(p)
    \/ \E p \in Procs, u \in Users, c \in Courses : purchaseCourse_read(p, u, c)
    \/ \E p \in Procs : purchaseCourse_create(p)
    \/ \E p \in Procs, u \in Users, c \in Courses, k \in BOOLEAN :
           createCheckoutSession_read(p, u, c, k)
    \/ \E p \in Procs : createCheckoutSession_create(p)
    \/ \E p \in Procs, r \in BOOLEAN : createCheckoutSession_session(p, r)
    \/ \E p \in Procs, i \in Ids : processRefund_read(p, i)
    \/ \E p \in Procs : processRefund_update(p)
    \/ \E p \in Procs, i \in Ids : deleteEnrollment(p, i)

SpecDirect == InitRetry /\ [][NextDirect]_vars

\* ------------------------------------------------------------ the receipt
\* The checkout, the deliveries of the gateway's events and the admin's
\* delete: every response is observed, the receipts are recorded and at
\* most MaxFail store calls fail.
NextReceipt ==
    \/ \E s \in Sessions : CustomerPays(s)
    \/ \E s \in Sessions : SessionExpires(s)
    \/ \E p \in Procs, s \in Sessions, v \in BOOLEAN : handleStripeWebhook_bySession(p, s, v)
    \/ \E p \in Procs : handleStripeWebhook_byPair(p)
    \/ \E p \in Procs : handleStripeWebhook_update(p)
    \/ \E p \in Procs : handleStripeWebhook_create(p)
    \/ \E p \in Procs, s \in Sessions : handleStripeWebhook_expired(p, s)
    \/ \E p \in Procs : handleStripeWebhook_other(p)
    \/ \E p \in Procs, u \in Users, c \in Courses, k \in BOOLEAN :
           createCheckoutSession_read(p, u, c, k)
    \/ \E p \in Procs : createCheckoutSession_create(p)
    \/ \E p \in Procs, r \in BOOLEAN : createCheckoutSession_session(p, r)
    \/ \E p \in Procs, i \in Ids : deleteEnrollment(p, i)

SpecReceipt == InitReceipt /\ [][NextReceipt]_vars

\* ----------------------------------------------- redelivery until success
\* The gateway delivers the completed event of a paid session at least once
\* and again after every answer that is not a success.  At most MaxFail store
\* calls fail, every response is observed, and the admin deletes finitely
\* often: a row is deleted only while the store has an id left for the row
\* that takes its place.
Deliver(s) ==
    \E p \in Procs : handleStripeWebhook_bySession(p, s, TRUE)

\* the store calls a suspended handler is waiting for
WebhookContinues ==
    \E p \in Procs :
        \/ handleStripeWebhook_byPair(p)
        \/ handleStripeWebhook_update(p)
        \/ handleStripeWebhook_create(p)

OthersContinue ==
    \E p \in Procs :
        \/ createCheckoutSession_create(p)
        \/ \E r \in BOOLEAN : createCheckoutSession_session(p, r)
        \/ createEnrollment_create(p)
        \/ processRefund_update(p)

NextRetry ==
    \/ \E s \in Sessions : CustomerPays(s)
    \/ \E s \in Sessions : Deliver(s)
    \/ WebhookContinues
    \/ OthersContinue
    \/ \E p \in Procs, u \in Users, c \in Courses, k \in BOOLEAN :
           createCheckoutSession_read(p, u, c, k)
    \/ \E p \in Procs, u \in Users, c \in Courses, x \in PriceInputs :
           createEnrollment_read(p, u, c, x)
    \/ \E p \in Procs, i \in Ids : processRefund_read(p, i)
    \/ \E p \in Procs, i \in Ids : deleteEnrollment(p, i) /\ nextId <= MaxId

\* Node resumes a suspended handler when the call it awaits settles, and
\* the gateway redelivers an event that has not been answered with success.
SpecRetry ==
    /\ InitRetry /\ [][NextRetry]_vars
    /\ WF_vars(WebhookContinues)
    /\ WF_vars(OthersContinue)
    /\ \A s \in Sessions : SF_vars(Deliver(s) /\ sessions[s].state = "paid")

TypeOK ==
    /\ nextId \in 1..(MaxId + 1)
    /\ fails \in 0..Unlimited
    /\ \A e \in enrollments : e.status \in EnrollmentStatus /\ e.id \in Ids


\* ------------------------------------------------------------ properties
\* slot p takes a step
Steps(p) == procs'[p] # procs[p]

\* the rows of the store after the step that have this id
RowsAfter(id) == {e \in enrollments' : e.id = id}

\* C1: in every reachable state at most one Enrollment exists for each
\* (userId, courseId) pair.
C1_UniquePair ==
    \A e1, e2 \in enrollments :
        (e1.userId = e2.userId /\ e1.courseId = e2.courseId) => e1 = e2

\* an insert is about to run for a pair that has got its row meanwhile
C1_Witness ==
    \E p \in Procs :
        /\ procs[p].pc \in {"create", "createMany"}
        /\ findByPair(procs[p].user, "c1") # {}

\* C2 as claimed: when the same verified event is replayed on its own, once
\* it is acknowledged exactly one insert or update has been made for it.
C2_ExactlyOne ==
    (replay # NoReplay /\ sessions[replay.session].state = "acked")
        => replay.writes = 1

\* C2 as amended: replaying the same verified event on its own makes at most
\* one insert or update in total; once the event is acknowledged it has made
\* exactly one, unless the Enrollment of its pair is REFUNDED, and then none.
C2_AtMostOne ==
    replay # NoReplay =>
        /\ replay.writes <= 1
        /\ sessions[replay.session].state = "acked" =>
              (replay.writes = 1) #
              (\E e \in findByPair(sessions[replay.session].userId,
                                   sessions[replay.session].courseId) :
                   e.status = "REFUNDED")

\* the event has been acknowledged twice in a row and has written once
C2_Witness == replay.acks = 2 /\ replay.writes = 1

\* C3: once the confirmation of session S has been processed, a later
\* redelivery of it changes no Enrollment, whatever has happened to the
\* Enrollment of its pair in between.
C3_LateRedeliveryNoop ==
    [][\A p \in Procs :
          (procs[p].op = "webhook" /\ procs[p].late /\ Steps(p))
              => enrollments' = enrollments]_vars

\* C4: a delivery of a confirmation leaves every REFUNDED Enrollment in the
\* store and REFUNDED, and its pair with that one Enrollment.
C4_RefundedSurvivesWebhook ==
    [][\A p \in Procs :
          (procs[p].op = "webhook" /\ Steps(p)) =>
              \A e \in enrollments :
                  e.status = "REFUNDED" =>
                      /\ \E e2 \in RowsAfter(e.id) : e2.status = "REFUNDED"
                      /\ \A e2 \in enrollments' :
                            (e2.userId = e.userId /\ e2.courseId = e.courseId)
                                => e2.id = e.id]_vars

\* a delivery has passed the refunded guard and the row it is about to
\* update has been refunded meanwhile
C4_Witness ==
    \E p \in Procs :
        /\ procs[p].op = "webhook" /\ procs[p].pc = "update"
        /\ \E e \in findById(procs[p].id) : e.status = "REFUNDED"

\* C5: only the admin's updateEnrollmentStatus takes an Enrollment out of
\* REFUNDED: after any other step a REFUNDED row is REFUNDED or deleted.
C5_RefundedTerminal ==
    [][\/ \E p \in Procs, i \in Ids, st \in StatusInputs :
              updateEnrollmentStatus_update(p, i, st)
       \/ \A e \in enrollments :
              e.status = "REFUNDED" =>
                  \A e2 \in RowsAfter(e.id) : e2.status = "REFUNDED"]_vars

\* C6: when the insert of a delivery is rejected by a unique index because
\* another delivery has written the Enrollment of the pair meanwhile (no
\* store call failing), the delivery is acknowledged with success.
C6_ConflictAcknowledged ==
    [][\A p \in Procs :
          (/\ procs[p].op = "webhook" /\ procs[p].pc = "create"
           /\ Steps(p) /\ fails' = fails
           /\ \E e \in findByPair(procs[p].user, procs[p].course) :
                  e.stripeSessionId # NULL
           /\ UniqueViolation(WebhookEnrollment(procs[p].user, procs[p].course,
                                                procs[p].session)))
              => sessions'[procs[p].session].state = "acked"]_vars

\* C7: in every reachable state at most one Enrollment carries a given
\* non-null stripeSessionId.
C7_UniqueSession ==
    \A e1, e2 \in enrollments :
        (e1.stripeSessionId # NULL /\ e1.stripeSessionId = e2.stripeSessionId)
            => e1 = e2

\* a delivery is about to write the session id that a row carries already
C7_Witness ==
    \E p \in Procs :
        /\ procs[p].op = "webhook" /\ procs[p].pc \in {"create", "update"}
        /\ findBySession(procs[p].session) # {}

\* C8 as claimed: every Enrollment with progress 100 is COMPLETED and has a
\* completedAt.
C8_HundredIsCompleted ==
    \A e \in enrollments :
        e.progress = 100 => (e.status = "COMPLETED" /\ e.completedAt # NoTime)

\* C8 as amended: every Enrollment with progress 100, and every COMPLETED
\* Enrollment, has a completedAt.
C8_HundredIsStamped ==
    \A e \in enrollments :
        (e.progress = 100 \/ e.status = "COMPLETED") => e.completedAt # NoTime

\* an Enrollment with progress 100 that is not COMPLETED
C8_Witness ==
    \E e \in enrollments :
        e.progress = 100 /\ e.status # "COMPLETED" /\ e.completedAt # NoTime

\* C9: an updateEnrollmentProgress with 100 that succeeds on a row whose
\* status is the one it has read leaves the row COMPLETED with a completedAt;
\* an updateEnrollmentStatus to COMPLETED that succeeds leaves the row with
\* progress 100 and a completedAt.
C9_CompletionBothWays ==
    [][/\ \A p \in Procs :
             (/\ procs[p].op = "updateEnrollmentProgress" /\ Steps(p)
              /\ parseInt(procs[p].val) = 100
              /\ fails' = fails
              /\ \E e \in findById(procs[p].id) : e.status = procs[p].status)
                 => /\ RowsAfter(procs[p].id) # {}
                    /\ \A e2 \in RowsAfter(procs[p].id) :
                          /\ e2.status = "COMPLETED"
                          /\ e2.completedAt # NoTime
                          /\ e2.progress = 100
       /\ \A p \in Procs, i \in Ids :
             (updateEnrollmentStatus_update(p, i, "COMPLETED") /\ fails' = fails)
                 => /\ RowsAfter(i) # {}
                    /\ \A e2 \in RowsAfter(i) :
                          /\ e2.status = "COMPLETED"
                          /\ e2.completedAt # NoTime
                          /\ e2.progress = 100]_vars

\* the owner's update to 100 is about to be written to a PENDING row
C9_Witness ==
    \E p \in Procs :
        /\ procs[p].op = "updateEnrollmentProgress"
        /\ parseInt(procs[p].val) = 100
        /\ \E e \in findById(procs[p].id) :
              e.status = "PENDING" /\ procs[p].status = "PENDING" /\ e.progress < 100

\* the step is the answer of a delivery of a verified confirmation in which
\* a store call has failed
FailedDelivery(p, s) ==
    /\ fails' # fails
    /\ \/ handleStripeWebhook_bySession(p, s, TRUE)
       \/ procs[p].op = "webhook" /\ procs[p].session = s /\ Steps(p)

\* the event of a paid session is in the end acknowledged with success, and
\* then the pair of the event has exactly one Enrollment
RetryConverges ==
    \A s \in Sessions :
        (sessions[s].state = "paid") ~>
            (/\ sessions[s].state = "acked"
             /\ Cardinality(findByPair(sessions[s].userId, sessions[s].courseId)) = 1)

Ends(p) == ~IsIdle(p) /\ procs'[p] = Idle

\* C11: a delivery in which no store call fails is answered 200, whatever
\* its outcome is (bad signature, processed already, refunded guard, attach,
\* insert, expiration).
C11_FailureOnlyOnStoreFailure ==
    [][\A p \in Procs :
          /\ (procs[p].op = "webhook" /\ Ends(p) /\ fails' = fails)
                 => lastRes' = <<200>>
          /\ \A s \in Sessions, v \in BOOLEAN :
                 (/\ handleStripeWebhook_bySession(p, s, v)
                  /\ procs' = procs /\ fails' = fails)
                     => lastRes' = <<200>>
          /\ \A s \in Sessions :
                 handleStripeWebhook_expired(p, s) => lastRes' = <<200>>]_vars

\* C12: the Enrollment a delivery inserts has the settled amount of its
\* event as price (amount_total is in cents, price in tenths of a cent),
\* whatever the catalog price is now, status PENDING, progress 0, the
\* payment method "stripe" and the session and payment ids of the event.
C12_CallbackPriceIsSettled ==
    [][\A p \in Procs :
          (/\ procs[p].op = "webhook" /\ procs[p].pc = "create"
           /\ Steps(p) /\ enrollments' # enrollments)
              => \E e \in enrollments' :
                     /\ enrollments' = enrollments \cup {e}
                     /\ e.price = sessions[procs[p].session].amount_total * 10
                     /\ e.status = "PENDING" /\ e.progress = 0
                     /\ e.completedAt = NoTime
                     /\ e.paymentMethod = "stripe"
                     /\ e.stripeSessionId = procs[p].session
                     /\ e.stripePaymentId = PaymentIntent(procs[p].session)
                     /\ e.userId = sessions[procs[p].session].userId
                     /\ e.courseId = sessions[procs[p].session].courseId]_vars

\* a delivery is about to insert and the catalog price is no longer the
\* one the session was created at
C12_Witness ==
    \E p \in Procs :
        /\ procs[p].op = "webhook" /\ procs[p].pc = "create"
        /\ findByPair(procs[p].user, procs[p].course) = {}
        /\ ToCents(courses[procs[p].course].price) #
               sessions[procs[p].session].amount_total

\* C13: in every reachable state an Enrollment whose payment method is
\* "stripe" has as price the settled amount of the session whose id it
\* carries.
C13_GatewayPriceIsSettled ==
    \A e \in enrollments :
        e.paymentMethod = "stripe" =>
            e.price = sessions[e.stripeSessionId].amount_total * 10

\* C14: no step changes the price of an Enrollment that exists.
C14_PriceImmutable ==
    [][\A e \in enrollments :
          \A e2 \in RowsAfter(e.id) : e2.price = e.price]_vars

\* a delivery is about to attach the identifiers of a session to a row
\* whose price is not the settled amount of that session
C14_Witness ==
    \E p \in Procs :
        /\ procs[p].op = "webhook" /\ procs[p].pc = "update"
        /\ \E e \in findById(procs[p].id) :
               e.price # SettledPrice(sessions[procs[p].session].amount_total)

\* C15: a delivery whose pair lookup finds an Enrollment that is not
\* REFUNDED goes on to update it and inserts nothing; its update replaces
\* the row by one that differs in stripeSessionId, stripePaymentId and
\* paymentMethod only.
C15_AttachFrame ==
    [][\A p \in Procs :
          /\ (/\ procs[p].op = "webhook" /\ procs[p].pc = "byPair"
              /\ Steps(p) /\ fails' = fails
              /\ \E e \in findByPair(procs[p].user, procs[p].course) :
                     e.status # "REFUNDED")
                 => /\ procs'[p].pc = "update"
                    /\ enrollments' = enrollments
          /\ (/\ procs[p].op = "webhook" /\ procs[p].pc = "update"
              /\ Steps(p) /\ fails' = fails
              /\ findById(procs[p].id) # {})
                 => \E old \in findById(procs[p].id), new \in RowsAfter(procs[p].id) :
                        /\ enrollments' = (enrollments \ {old}) \cup {new}
                        /\ new.stripeSessionId = procs[p].session
                        /\ new.stripePaymentId = PaymentIntent(procs[p].session)
                        /\ new.paymentMethod = "stripe"
                        /\ new.userId = old.userId /\ new.courseId = old.courseId
                        /\ new.status = old.status /\ new.progress = old.progress
                        /\ new.price = old.price
                        /\ new.completedAt = old.completedAt
                        /\ sessions'[procs[p].session].state = "acked"]_vars

\* a delivery is about to attach its identifiers to an Enrollment that a
\* direct path has created and that has been refunded since the pair lookup
C15_Witness ==
    \E p \in Procs :
        /\ procs[p].op = "webhook" /\ procs[p].pc = "update"
        /\ \E e \in findById(procs[p].id) :
               /\ e.stripeSessionId = NULL /\ e.paymentMethod = NULL
               /\ e.status = "REFUNDED"

\* C16: a createCheckoutSession for a course whose price is not 0 never
\* takes the branch that inserts, and none of its steps changes the
\* Enrollment table, whether the gateway call succeeds or fails.
C16_PaidCheckoutWritesNothing ==
    [][\A p \in Procs :
          /\ \A u \in Users, c \in Courses, k \in BOOLEAN :
                 (createCheckoutSession_read(p, u, c, k) /\ courses[c].price > 0)
                     => /\ enrollments' = enrollments
                        /\ procs'[p].pc # "create"
          /\ (procs[p].op = "createCheckoutSession" /\ procs[p].val > 0 /\ Steps(p))
                 => enrollments' = enrollments]_vars

\* the gateway call of a checkout for a paid course is about to be made
\* and the pair has no Enrollment
C16_Witness ==
    \E p \in Procs :
        /\ procs[p].op = "createCheckoutSession" /\ procs[p].pc = "session"
        /\ procs[p].val > 0
        /\ findByPair(procs[p].user, procs[p].course) = {}

\* C17: a createCheckoutSession for a published course of price 0, by a
\* user who exists and has no Enrollment for it, takes the branch that
\* inserts whether the gateway client is configured or not; its insert,
\* when no store call fails and the pair still has no Enrollment, adds
\* exactly one row with paymentMethod "free", status PENDING, progress 0 and
\* price 0, answers 201 and creates no gateway session.
C17_FreeCourseEnrollsDirectly ==
    [][\A p \in Procs :
          /\ \A u \in Users, c \in Courses, k \in BOOLEAN :
                 (/\ createCheckoutSession_read(p, u, c, k) /\ fails' = fails
                  /\ courses[c].status = "PUBLISHED" /\ courses[c].price = 0
                  /\ u \in users /\ findByPair(u, c) = {})
                     => /\ procs'[p].op = "createCheckoutSession"
                        /\ procs'[p].pc = "create"
                        /\ sessions' = sessions /\ enrollments' = enrollments
          /\ (/\ procs[p].op = "createCheckoutSession" /\ procs[p].pc = "create"
              /\ Steps(p) /\ fails' = fails
              /\ findByPair(procs[p].user, procs[p].course) = {})
                 => /\ \E e \in enrollments' :
                           /\ enrollments' = enrollments \cup {e}
                           /\ e \notin enrollments
                           /\ e.userId = procs[p].user /\ e.courseId = procs[p].course
                           /\ e.paymentMethod = "free" /\ e.status = "PENDING"
                           /\ e.progress = 0 /\ e.price = 0
                           /\ e.stripeSessionId = NULL /\ e.stripePaymentId = NULL
                    /\ lastRes' = <<201>>
                    /\ sessions' = sessions]_vars

\* the insert for a free course is about to run and the pair has no
\* Enrollment
C17_Witness ==
    \E p \in Procs :
        /\ procs[p].op = "createCheckoutSession" /\ procs[p].pc = "create"
        /\ courses[procs[p].course].price = 0
        /\ findByPair(procs[p].user, procs[p].course) = {}

\* C18: a createCheckoutSession for a paid course answers 503 (service
\* unavailable) when the gateway client is unconfigured and when the call
\* that creates the gateway session fails, and creates no Enrollment in
\* either case.
C18_GatewayFailureIsUnavailable ==
    [][\A p \in Procs :
          /\ \A u \in Users, c \in Courses :
                 (/\ createCheckoutSession_read(p, u, c, FALSE) /\ fails' = fails
                  /\ courses[c].status = "PUBLISHED" /\ courses[c].price > 0
                  /\ u \in users /\ findByPair(u, c) = {})
                     => /\ lastRes' = <<503>>
                        /\ enrollments' = enrollments
          /\ createCheckoutSession_session(p, FALSE)
                 => /\ lastRes' = <<503>>
                    /\ enrollments' = enrollments]_vars

\* C19: createEnrollment (with or without a price override) and
\* purchaseCourse, called by an existing user for an existing course that
\* is not published while no store call fails, answer 400 (invalid state)
\* and do not go on to insert an Enrollment.
C19_UnpublishedRejected ==
    [][\A p \in Procs, u \in Users, c \in Courses :
          (/\ \/ \E x \in PriceInputs : createEnrollment_read(p, u, c, x)
              \/ purchaseCourse_read(p, u, c)
           /\ fails' = fails
           /\ u \in users /\ courses[c] # NoCourse
           /\ courses[c].status # "PUBLISHED")
              => /\ lastRes' = <<400>>
                 /\ IsIdle(p) /\ procs'[p] = Idle
                 /\ enrollments' = enrollments]_vars

\* C20: createEnrollment, purchaseCourse and createCheckoutSession, called
\* by an existing user for a (user, course) pair that already has an
\* Enrollment of whatever status, answer 409 and leave the store unchanged
\* (the course being published for the two entry points that test it
\* first, and no store call failing); and when the pair's Enrollment
\* appears between a handler's lookup and its insert, the insert is
\* rejected by the unique index and the handler answers 409 as well.
C20_DuplicateIsConflict ==
    [][\A p \in Procs :
          /\ \A u \in Users, c \in Courses :
                 (/\ \/ \E x \in PriceInputs : createEnrollment_read(p, u, c, x)
                     \/ /\ courses[c].status = "PUBLISHED"
                        /\ \/ purchaseCourse_read(p, u, c)
                           \/ \E k \in BOOLEAN : createCheckoutSession_read(p, u, c, k)
                  /\ fails' = fails
                  /\ u \in users /\ courses[c] # NoCourse
                  /\ findByPair(u, c) # {})
                     => /\ lastRes' = <<409>>
                        /\ procs'[p] = Idle
                        /\ enrollments' = enrollments /\ nextId' = nextId
                        /\ sessions' = sessions
          /\ (/\ procs[p].op \in {"createEnrollment", "purchaseCourse",
                                  "createCheckoutSession"}
              /\ procs[p].pc = "create"
              /\ Steps(p) /\ fails' = fails
              /\ findByPair(procs[p].user, procs[p].course) # {})
                 => /\ lastRes' = <<409>>
                    /\ procs'[p] = Idle
                    /\ enrollments' = enrollments /\ nextId' = nextId
                    /\ sessions' = sessions]_vars

\* a handler has passed its lookup and is about to insert, and the pair
\* has meanwhile got an Enrollment that is now REFUNDED
C20_Witness ==
    \E p \in Procs :
        /\ procs[p].op \in {"createEnrollment", "purchaseCourse",
                            "createCheckoutSession"}
        /\ procs[p].pc = "create"
        /\ \E e \in findByPair(procs[p].user, procs[p].course) :
               e.status = "REFUNDED"

\* C21: when handleStripeWebhook has inserted the Enrollment of a session
\* and the receipt is not sent (the lookup of the recipient or the sending
\* of the email fails), the delivery is still answered 200 and acknowledged,
\* and the store holds the inserted Enrollment exactly as it was inserted,
\* next to the rows it held before.
C21_ReceiptFailureSwallowed ==
    [][\A p \in Procs :
          (/\ procs[p].op = "webhook" /\ procs[p].pc = "create" /\ Steps(p)
           /\ enrollments' # enrollments
           /\ receipts' = receipts)
              => /\ lastRes' = <<200>>
                 /\ sessions'[procs[p].session].state = "acked"
                 /\ enrollments' = enrollments \cup
                       {WebhookEnrollment(procs[p].user, procs[p].course,
                                          procs[p].session)}]_vars

\* the only session there has been is acknowledged and its Enrollment was
\* inserted, but no receipt has been sent
C21_Witness ==
    /\ receipts = NoReceipts
    /\ sessions["s1"].state = "acked" /\ sessions["s2"].state = "none"
    /\ nextId = 2
    /\ \E e \in enrollments : e.stripeSessionId = "s1" /\ e.paymentMethod = "stripe"

\* C22: a delivery whose signature does not verify, a delivery of
\* checkout.session.expired and a delivery of an event of any other type
\* are answered 200 at once, without a store call, and leave every
\* Enrollment as it is; a step of handleStripeWebhook that changes the
\* Enrollment table belongs to a delivery of the completed event of a
\* session that has been paid.
C22_OnlyCompletedEventWrites ==
    [][\A p \in Procs :
          /\ (\/ \E s \in Sessions : handleStripeWebhook_bySession(p, s, FALSE)
              \/ \E s \in Sessions : handleStripeWebhook_expired(p, s)
              \/ handleStripeWebhook_other(p))
                 => /\ lastRes' = <<200>>
                    /\ enrollments' = enrollments /\ nextId' = nextId
                    /\ procs' = procs /\ fails' = fails
                    /\ receipts' = receipts
          /\ (procs[p].op = "webhook" /\ Steps(p) /\ enrollments' # enrollments)
                 => sessions[procs[p].session].state \in {"paid", "acked"}]_vars

\* one session is paid and waits for its confirmation, the other has
\* expired, no Enrollment exists and the last delivery was answered 200
C22_Witness ==
    /\ \A p \in Procs : IsIdle(p)
    /\ \E s, t \in Sessions : sessions[s].state = "paid" /\ sessions[t].state = "expired"
    /\ enrollments = {}
    /\ lastRes = <<200>>

\* C23: the store call of processRefund either leaves the store as it is
\* (the call failed or the row is gone) or replaces the Enrollment it was
\* called for by the same row with status REFUNDED: price, progress,
\* completedAt, stripeSessionId, stripePaymentId and paymentMethod are as
\* before, and every other row of the store is as before.
C23_RefundChangesStatusOnly ==
    [][\A p \in Procs :
          (procs[p].op = "processRefund" /\ Steps(p))
              => \/ enrollments' = enrollments
                 \/ /\ findById(procs[p].id) # {}
                    /\ LET old == RowOf(procs[p].id)
                       IN  enrollments' = (enrollments \ {old}) \cup
                                              {[old EXCEPT !.status = "REFUNDED"]}]_vars

\* a refund is about to be written to a completed Enrollment that carries
\* the identifiers of a gateway payment
C23_Witness ==
    \E p \in Procs :
        /\ procs[p].op = "processRefund" /\ procs[p].pc = "update"
        /\ \E e \in findById(procs[p].id) :
               /\ e.status = "COMPLETED" /\ e.progress = 100 /\ e.completedAt # NoTime
               /\ e.stripeSessionId # NULL /\ e.stripePaymentId # NULL
               /\ e.paymentMethod = "stripe"

\* C24: processRefund called for an Enrollment that is REFUNDED answers 400
\* and leaves it unchanged, and while no status update runs no processRefund
\* answers 200 for an Enrollment that is REFUNDED already when its store
\* call is made: of two refund calls on the same Enrollment, concurrent
\* ones included, at most one succeeds.
C24_RefundAtMostOnce ==
    [][\A p \in Procs :
          /\ \A i \in Ids :
                 (/\ processRefund_read(p, i) /\ fails' = fails
                  /\ findById(i) # {} /\ RowOf(i).status = "REFUNDED")
                     => /\ lastRes' = <<400>>
                        /\ procs' = procs
                        /\ enrollments' = enrollments
          /\ (/\ procs[p].op = "processRefund" /\ Steps(p)
              /\ findById(procs[p].id) # {}
              /\ RowOf(procs[p].id).status = "REFUNDED")
                 => lastRes' # <<200>>]_vars

\* C25: a step of updateEnrollmentProgress called by a principal who is
\* not the user of the Enrollment it names leaves that Enrollment, and the
\* whole Enrollment table, unchanged.
C25_ProgressOnlyByOwner ==
    [][\A p \in Procs :
          (/\ procs[p].op = "updateEnrollmentProgress" /\ Steps(p)
           /\ \E e \in findById(procs[p].id) : e.userId # procs[p].user)
              => enrollments' = enrollments]_vars

\* C26: for every Enrollment, whatever its status, and every target among
\* pending, COMPLETED and REFUNDED, updateEnrollmentStatus can run on it,
\* and when no store call fails it answers 200 and leaves the row with the
\* target status (PENDING, COMPLETED or REFUNDED); a call with a missing
\* status or one outside these answers 400 and changes nothing.
C26_AnyTransitionAllowed ==
    /\ [](\A e \in enrollments, st \in {"pending", "COMPLETED", "REFUNDED"} :
             (\E p \in Procs : IsFree(p))
                => ENABLED (\E p \in Procs :
                              /\ updateEnrollmentStatus_update(p, e.id, st)
                              /\ lastRes' = <<200>>))
    /\ [][\A p \in Procs, i \in Ids :
             /\ \A st \in {"pending", "COMPLETED", "REFUNDED"} :
                    /\ updateEnrollmentStatus_read(p, i, st) => lastRes' # <<400>>
                    /\ (updateEnrollmentStatus_update(p, i, st) /\ fails' = fails)
                          => /\ lastRes' = <<200>>
                             /\ \E e \in enrollments' :
                                    /\ e.id = i
                                    /\ e.status = (IF st = "pending" THEN "PENDING" ELSE st)
                                    /\ enrollments' = (enrollments \ findById(i)) \cup {e}
             /\ \A st \in {"", "CANCELLED"} :
                    updateEnrollmentStatus_read(p, i, st)
                       => /\ lastRes' = <<400>>
                          /\ enrollments' = enrollments
                          /\ procs' = procs]_vars

\* a slot is free while a REFUNDED Enrollment exists: the admin can set it
\* back to PENDING
C26_Witness ==
    /\ \E p \in Procs : IsFree(p)
    /\ \E e \in enrollments : e.status = "REFUNDED"

\* C27: an Enrollment that is in the store before a step and not after it
\* has been removed by deleteEnrollment called for its id; and
\* deleteEnrollment called for an existing Enrollment, when no store call
\* fails, removes it and answers 200 whatever its status is.
C27_OnlyExplicitDelete ==
    [][/\ \A e \in enrollments :
             findById(e.id)' = {} => \E p \in Procs : deleteEnrollment(p, e.id)
       /\ \A p \in Procs, i \in Ids :
             (deleteEnrollment(p, i) /\ fails' = fails /\ findById(i) # {})
                => /\ lastRes' = <<200>>
                   /\ enrollments' = enrollments \ findById(i)]_vars

\* C28: a write of handleStripeWebhook to an Enrollment that is REFUNDED
\* when the write is made leaves its stripeSessionId, stripePaymentId and
\* paymentMethod as they are, also when the handler looked the Enrollment
\* up before it became REFUNDED.
C28_StaleConfirmationKeepsRefund ==
    [][\A p \in Procs :
          (/\ procs[p].op = "webhook" /\ procs[p].pc = "update" /\ Steps(p)
           /\ findById(procs[p].id) # {}
           /\ RowOf(procs[p].id).status = "REFUNDED")
              => \A e \in RowsAfter(procs[p].id) :
                    /\ e.stripeSessionId = RowOf(procs[p].id).stripeSessionId
                    /\ e.stripePaymentId = RowOf(procs[p].id).stripePaymentId
                    /\ e.paymentMethod = RowOf(procs[p].id).paymentMethod]_vars

\* C29 as claimed: once an Enrollment has a stripeSessionId and a
\* stripePaymentId, no step changes or clears them while the Enrollment
\* exists, so the lookup by that stripeSessionId keeps finding it.
C29_GatewayIdsWriteOnce ==
    [][\A e \in enrollments :
          (e.stripeSessionId # NULL /\ e.stripePaymentId # NULL)
              => /\ \A e2 \in RowsAfter(e.id) :
                       /\ e2.stripeSessionId = e.stripeSessionId
                       /\ e2.stripePaymentId = e.stripePaymentId
                 /\ RowsAfter(e.id) # {}
                       => \E e2 \in findBySession(e.stripeSessionId)' : e2.id = e.id]_vars

\* C29: once an Enrollment has a stripeSessionId and a stripePaymentId,
\* the only step that changes them while the Enrollment exists is the
\* attach of handleStripeWebhook for another session of the same pair,
\* which replaces them by that session's identifiers; no step clears them.
C29_GatewayIdsChangeOnlyByAttach ==
    [][\A e \in enrollments :
          (e.stripeSessionId # NULL /\ e.stripePaymentId # NULL)
              => \A e2 \in RowsAfter(e.id) :
                    \/ /\ e2.stripeSessionId = e.stripeSessionId
                       /\ e2.stripePaymentId = e.stripePaymentId
                    \/ \E p \in Procs :
                          /\ procs[p].op = "webhook" /\ procs[p].pc = "update"
                          /\ Steps(p)
                          /\ procs[p].id = e.id
                          /\ procs[p].user = e.userId /\ procs[p].course = e.courseId
                          /\ procs[p].session # e.stripeSessionId
                          /\ e2.stripeSessionId = procs[p].session
                          /\ e2.stripePaymentId = PaymentIntent(procs[p].session)]_vars

\* a confirmation is about to attach its session to an Enrollment that
\* carries the identifiers of another session
C29_Witness ==
    \E p \in Procs :
        /\ procs[p].op = "webhook" /\ procs[p].pc = "update"
        /\ \E e \in findById(procs[p].id) :
               /\ e.stripeSessionId # NULL /\ e.stripePaymentId # NULL
               /\ e.stripeSessionId # procs[p].session

\* C30: at most one receipt is sent for each gateway session id, whatever
\* deliveries and redeliveries of confirmations are made, and a receipt is
\* sent only by a step of handleStripeWebhook that inserts the Enrollment of
\* that session.
C30_ReceiptAtMostOnce ==
    [][\A s \in Sessions :
          /\ receipts'[s] <= 1
          /\ receipts'[s] # receipts[s]
                => \E p \in Procs :
                      /\ procs[p].op = "webhook" /\ procs[p].pc = "create"
                      /\ procs[p].session = s /\ Steps(p)
                      /\ findBySession(s) = {}
                      /\ findBySession(s)' # {}]_vars

====
